---- MODULE Spec2Model ----
(***************************************************************************)
(* Swingft/SwiftDepGraph: the resolver of main.py (download_package_swift  *)
(* and its callers) and the analyzer of dependency_graph_analyzer.py       *)
(* (scan_directory_structure, calculate_graph_metrics,                     *)
(* detect_circular_dependencies), as one state machine.                    *)
(*                                                                         *)
(* A Python string is a sequence of tokens.  A token is one character      *)
(* ("a", "/", "_") or a piece of text the code only ever treats as a whole *)
(* (the scheme and host of a URL, the suffix ".git").  A manifest text is  *)
(* the sequence of locators its .package(...) declarations name, in text   *)
(* order.                                                                  *)
(***************************************************************************)
EXTENDS Integers, Sequences, FiniteSets, TLC

\* Bounds of the model.
MaxSeeds == 2   \* rows of the seed list
MaxDecls == 2   \* .package declarations in all the manifests read, together
MaxStack == 5   \* nested calls of download_package_swift
MaxStored == 4  \* .package declarations in a tree given to the analyzer alone
MaxReported == 2  \* .package declarations in a tree analysed to the output files

---------------------------------------------------------------------------
\* Strings

Host    == "https://github.com"      \* scheme and host of a well-formed URL
BadHost == "https://[github.com"     \* urlparse raises ValueError (bracket)
Other   == "https://example.org"     \* a host without 'github.com'
Git     == ".git"

\* owner/name identifiers; IdC has an underscore in its name.
IdA == <<"a", "/", "x">>
IdB == <<"b", "/", "y">>
IdC == <<"c", "/", "u", "_", "v">>
IdD == <<"d", "/", "w">>

Url(id)      == <<Host, "/">> \o id
UrlGit(id)   == Url(id) \o <<Git>>
UrlBad(id)   == <<BadHost, "/">> \o id
UrlOther(id) == <<Other, "/">> \o id
UrlOwner     == <<Host, "/", "a">>          \* one path segment only

\* str.replace(old, new) for one-character old and new
Replace(s, old, new) == [i \in DOMAIN s |-> IF s[i] = old THEN new ELSE s[i]]

\* 'github.com' in url
ContainsGithub(url) == \E i \in DOMAIN url : url[i] \in {Host, BadHost}

\* str.endswith('.git') and the slice [:-4]
StripGit(url) ==
    IF Len(url) > 0 /\ url[Len(url)] = Git THEN SubSeq(url, 1, Len(url) - 1)
    ELSE url

\* urlparse(url) raises ValueError on an unbalanced bracket in the host
UrlParseRaises(url) == Len(url) > 0 /\ url[1] = BadHost

\* urlparse(url).path: what follows scheme and host
UrlPath(url) ==
    IF Len(url) > 0 /\ url[1] \in {Host, Other} THEN Tail(url) ELSE url

RECURSIVE LStrip(_)
LStrip(s) == IF Len(s) > 0 /\ s[1] = "/" THEN LStrip(Tail(s)) ELSE s

RECURSIVE RStrip(_)
RStrip(s) ==
    IF Len(s) > 0 /\ s[Len(s)] = "/" THEN RStrip(SubSeq(s, 1, Len(s) - 1))
    ELSE s

\* str.strip('/')
Strip(s) == RStrip(LStrip(s))

\* str.split('/'): the segments between the slashes, empty ones included
RECURSIVE SplitFrom(_, _, _)
SplitFrom(s, i, cur) ==
    IF i > Len(s) THEN <<cur>>
    ELSE IF s[i] = "/" THEN <<cur>> \o SplitFrom(s, i + 1, <<>>)
    ELSE SplitFrom(s, i + 1, Append(cur, s[i]))

Split(s) == SplitFrom(s, 1, <<>>)

\* Python's None; like the empty string it is falsy, and the code only tests
\* the truth value of what extract_repo_info returns.
None == <<>>

\* extract_repo_info(github_url) -> (owner, repo), for a url urlparse accepts
extract_repo_info(github_url) ==
    LET path_parts == Split(Strip(UrlPath(StripGit(github_url))))
    IN  IF Len(path_parts) >= 2 THEN <<path_parts[1], path_parts[2]>>
        ELSE <<None, None>>

\* f"{owner}/{repo}" when both are truthy, None otherwise
RepoKey(url) ==
    LET info == extract_repo_info(url)
    IN  IF info[1] # None /\ info[2] # None THEN info[1] \o <<"/">> \o info[2]
        ELSE None

\* create_directory_path: the two directory names under base_dir
create_directory_path(repo_key, root_repo_key) ==
    <<Replace(root_repo_key, "/", "_"), Replace(repo_key, "/", "_")>>

---------------------------------------------------------------------------
\* The inputs of a run

\* The locators a manifest may declare and a seed row may hold.
DeclLocators ==
    {Url(IdB), Url(IdC), UrlGit(IdC), UrlBad(IdA), UrlOwner, UrlOther(IdA)}

SeedLocators == {Url(IdA), Url(IdB), UrlBad(IdA), UrlOwner}

SeqsUpTo(S, n) == UNION {[1..k -> S] : k \in 0..n}

Identifiers ==
    {RepoKey(l) : l \in {m \in DeclLocators \cup SeedLocators : ~UrlParseRaises(m)}}
        \ {None}

\* What a fetch of one identifier can give: no Package.swift on any branch or
\* an error of get_repo, content that does not decode, or a manifest text.
Unfetched == [kind |-> "Unfetched", decls |-> <<>>]

\* The orders in which a Python set, turned into a list, can come out
RECURSIVE Orders(_)
Orders(S) ==
    IF S = {} THEN {<<>>}
    ELSE UNION {{<<x>> \o rest : rest \in Orders(S \ {x})} : x \in S}

Range(f) == {f[i] : i \in DOMAIN f}

---------------------------------------------------------------------------
\* main.py

VARIABLES
    seeds,             \* the url column of the CSV, row by row
    row,               \* the row process_all_repositories is at
    remote,            \* what GitHub holds for each identifier, once fetched
    processed_repos,
    failed_repos,
    dependency_graph,  \* dict: repo_key -> list of dep_key
    fs,                \* base_dir: <<safe_root, safe_name>> -> Package.swift
    stack,             \* the active calls of download_package_swift, innermost last
    fetchLog,          \* the repo_key of every g.get_repo call, in call order
    phase              \* "resolve", "aborted" (uncaught exception), "resolved"

\* dependency_graph_analyzer.py: the fields of DependencyGraphAnalyzer
VARIABLES
    nodes,
    graph,             \* defaultdict(list): repo_key -> list of dependencies
    reverse_graph,     \* defaultdict(list): dependency -> list of dependents
    package_info,      \* dict: repo_key -> what parse_package_swift returned
    stats,
    nodes_data,        \* the node records of generate_graph_json, by node id
    apc                \* how far run_analysis is: "new", "scanned", "measured",
                       \* "emitted", "reported"

analyzerVars ==
    <<nodes, graph, reverse_graph, package_info, stats, nodes_data, apc>>

resolverVars ==
    <<seeds, row, remote, processed_repos, failed_repos, dependency_graph, fs, stack,
      fetchLog, phase>>

\* found_urls holding one locator for each identifier, not each locator string
extract_dependencies_by_key(content) ==
    LET urls == {content[i] : i \in {j \in DOMAIN content : ContainsGithub(content[j])}}
    IN  {u \in urls :
           \/ UrlParseRaises(u)
           \/ \A i, j \in DOMAIN content :
                (content[i] = u /\ ~UrlParseRaises(content[j])
                 /\ RepoKey(content[j]) = RepoKey(u)) => i <= j}

\* found_urls of extract_dependencies_from_content: the declared locators that
\* contain 'github.com', as a set
extract_dependencies_from_content(content) ==
    {content[i] : i \in {j \in DOMAIN content : ContainsGithub(content[j])}}

Top == stack[Len(stack)]
Pop == SubSeq(stack, 1, Len(stack) - 1)
TopKey == RepoKey(Top.github_url)

Frame(url, root) ==
    [github_url |-> url, root_repo_key |-> root, pc |-> "call",
     dependencies |-> <<>>, i |-> 1]

\* the membership test with one of its two sets left out
AlreadySeenProcessedOnly(repo_key) == repo_key \in processed_repos

AlreadySeenFailedOnly(repo_key) == repo_key \in failed_repos

\* the membership test of line 187
AlreadySeen(repo_key) == repo_key \in processed_repos \/ repo_key \in failed_repos

\* DependencyGraphAnalyzer.__init__
InitAnalyzer ==
    /\ nodes = {}
    /\ graph = <<>>
    /\ reverse_graph = <<>>
    /\ package_info = <<>>
    /\ stats = [total_nodes |-> 0, total_edges |-> 0, root_packages |-> 0,
                leaf_packages |-> 0, max_depth |-> 0,
                circular_dependencies |-> <<>>]
    /\ nodes_data = <<>>
    /\ apc = "new"

InitResolver ==
    /\ seeds \in SeqsUpTo(SeedLocators, MaxSeeds)
    /\ row = 1
    /\ remote = [id \in Identifiers |-> Unfetched]
    /\ processed_repos = {}
    /\ failed_repos = {}
    /\ dependency_graph = <<>>
    /\ fs = <<>>
    /\ stack = <<>>
    /\ fetchLog = <<>>
    /\ phase = "resolve"

\* process_all_repositories, one row whose url urlparse rejects: the
\* ValueError of line 305 is caught nowhere and ends the run.
SeedRaises ==
    /\ phase = "resolve" /\ stack = <<>> /\ row <= Len(seeds)
    /\ UrlParseRaises(seeds[row])
    /\ phase' = "aborted"
    /\ UNCHANGED <<analyzerVars, seeds, row, remote, processed_repos, failed_repos,
                   dependency_graph,
                   fs, stack, fetchLog>>

\* process_all_repositories, one row without owner and repo: skipped
SeedSkipped ==
    /\ phase = "resolve" /\ stack = <<>> /\ row <= Len(seeds)
    /\ ~UrlParseRaises(seeds[row])
    /\ RepoKey(seeds[row]) = None
    /\ row' = row + 1
    /\ UNCHANGED <<analyzerVars, seeds, remote, processed_repos, failed_repos,
                   dependency_graph, fs,
                   stack, fetchLog, phase>>

\* process_all_repositories, one row: download_package_swift(url, root, 0)
SeedCall ==
    /\ phase = "resolve" /\ stack = <<>> /\ row <= Len(seeds)
    /\ ~UrlParseRaises(seeds[row])
    /\ RepoKey(seeds[row]) # None
    /\ row' = row + 1
    /\ stack' = <<Frame(seeds[row], RepoKey(seeds[row]))>>
    /\ UNCHANGED <<analyzerVars, seeds, remote, processed_repos, failed_repos,
                   dependency_graph, fs,
                   fetchLog, phase>>

\* download_package_swift, lines 186-190: seen before, return True
AlreadyProcessed ==
    /\ stack # <<>> /\ Top.pc = "call"
    /\ AlreadySeen(TopKey)
    /\ stack' = Pop
    /\ UNCHANGED <<analyzerVars, seeds, row, remote, processed_repos, failed_repos,
                   dependency_graph,
                   fs, fetchLog, phase>>

RECURSIVE SumLen(_)
SumLen(S) ==
    IF S = {} THEN 0
    ELSE LET x == CHOOSE y \in S : TRUE IN Len(remote[x].decls) + SumLen(S \ {x})

\* the declarations of the manifests fetched so far
DeclsRead == SumLen(DOMAIN remote)

\* the manifest texts the identifier being fetched may have
Contents ==
    IF remote[TopKey] = Unfetched THEN SeqsUpTo(DeclLocators, MaxDecls - DeclsRead)
    ELSE {remote[TopKey].decls}

\* The fetch of lines 194-216 gives `outcome` for TopKey.
Fetch(outcome) ==
    /\ stack # <<>> /\ Top.pc = "call"
    /\ ~AlreadySeen(TopKey)
    /\ remote[TopKey] \in {Unfetched, outcome}
    /\ remote' = [remote EXCEPT ![TopKey] = outcome]
    /\ fetchLog' = Append(fetchLog, TopKey)

\* the failure handed on to the callers instead of being returned as False
FetchFailedUnwinds ==
    /\ Fetch([kind |-> "NotFound", decls |-> <<>>])
    /\ failed_repos' = failed_repos \cup {TopKey}
    /\ stack' = <<>>
    /\ UNCHANGED <<analyzerVars, seeds, row, processed_repos, dependency_graph, fs,
                   phase>>

\* lines 194-221 (no Package.swift on any branch) and 266-271 (get_repo raised)
FetchFailed ==
    /\ Fetch([kind |-> "NotFound", decls |-> <<>>])
    /\ failed_repos' = failed_repos \cup {TopKey}
    /\ stack' = Pop
    /\ UNCHANGED <<analyzerVars, seeds, row, processed_repos, dependency_graph, fs, phase>>

\* lines 194-229 and 266-271: the directory is made, then decode raises
DecodeFailed ==
    /\ Fetch([kind |-> "Undecodable", decls |-> <<>>])
    /\ LET path == create_directory_path(TopKey, Top.root_repo_key)
       IN  fs' = IF path \in DOMAIN fs THEN fs
                 ELSE (path :> [file |-> FALSE, content |-> <<>>]) @@ fs
    /\ failed_repos' = failed_repos \cup {TopKey}
    /\ stack' = Pop
    /\ UNCHANGED <<analyzerVars, seeds, row, processed_repos, dependency_graph, phase>>

\* lines 194-247: the manifest is stored, the identifier is processed, its
\* dependencies are extracted
Downloaded ==
    /\ stack # <<>> /\ Top.pc = "call"
    /\ \E content \in Contents :
      /\ Fetch([kind |-> "Manifest", decls |-> content])
      /\ LET path == create_directory_path(TopKey, Top.root_repo_key)
         IN  fs' = (path :> [file |-> TRUE, content |-> content]) @@ fs
      /\ processed_repos' = processed_repos \cup {TopKey}
      /\ \E dependencies \in Orders(extract_dependencies_from_content(content)) :
           /\ stack' = [stack EXCEPT ![Len(stack)] =
                          [@ EXCEPT !.pc = "loop", !.dependencies = dependencies,
                                    !.i = 1]]
           /\ dependency_graph' =
                IF dependencies # <<>> /\ TopKey \notin DOMAIN dependency_graph
                THEN (TopKey :> <<>>) @@ dependency_graph
                ELSE dependency_graph
      /\ UNCHANGED <<analyzerVars, seeds, row, failed_repos, phase>>

\* line 250 with the loop exhausted, line 264: return True
LoopDone ==
    /\ stack # <<>> /\ Top.pc = "loop"
    /\ Top.i > Len(Top.dependencies)
    /\ stack' = Pop
    /\ UNCHANGED <<analyzerVars, seeds, row, remote, processed_repos, failed_repos,
                   dependency_graph,
                   fs, fetchLog, phase>>

\* line 251 raises (urlparse rejects dep_url), lines 266-271: the identifier
\* being processed is added to failed_repos, return False
DepRaises ==
    /\ stack # <<>> /\ Top.pc = "loop"
    /\ Top.i <= Len(Top.dependencies)
    /\ UrlParseRaises(Top.dependencies[Top.i])
    /\ failed_repos' = failed_repos \cup {TopKey}
    /\ stack' = Pop
    /\ UNCHANGED <<analyzerVars, seeds, row, remote, processed_repos, dependency_graph,
                   fs, fetchLog,
                   phase>>

\* lines 251-252 with no owner or no repo: the locator is dropped
DepSkipped ==
    /\ stack # <<>> /\ Top.pc = "loop"
    /\ Top.i <= Len(Top.dependencies)
    /\ ~UrlParseRaises(Top.dependencies[Top.i])
    /\ RepoKey(Top.dependencies[Top.i]) = None
    /\ stack' = [stack EXCEPT ![Len(stack)] = [@ EXCEPT !.i = @ + 1]]
    /\ UNCHANGED <<analyzerVars, seeds, row, remote, processed_repos, failed_repos,
                   dependency_graph,
                   fs, fetchLog, phase>>

\* the edge put at the head of the list instead of its end
DepCallPrepends ==
    /\ stack # <<>> /\ Top.pc = "loop"
    /\ Top.i <= Len(Top.dependencies)
    /\ Len(stack) < MaxStack
    /\ LET dep_url == Top.dependencies[Top.i]
           dep_key == RepoKey(dep_url)
       IN  /\ ~UrlParseRaises(dep_url)
           /\ dep_key # None
           /\ dependency_graph' =
                [dependency_graph EXCEPT ![TopKey] = <<dep_key>> \o @]
           /\ stack' = Append([stack EXCEPT ![Len(stack)] = [@ EXCEPT !.i = @ + 1]],
                              Frame(dep_url, Top.root_repo_key))
    /\ UNCHANGED <<analyzerVars, seeds, row, remote, processed_repos, failed_repos, fs,
                   fetchLog, phase>>

\* lines 251-259: the edge is appended, then the recursive call is made
DepCall ==
    /\ stack # <<>> /\ Top.pc = "loop"
    /\ Top.i <= Len(Top.dependencies)
    /\ Len(stack) < MaxStack
    /\ LET dep_url == Top.dependencies[Top.i]
           dep_key == RepoKey(dep_url)
       IN  /\ ~UrlParseRaises(dep_url)
           /\ dep_key # None
           /\ dependency_graph' =
                [dependency_graph EXCEPT ![TopKey] = Append(@, dep_key)]
           /\ stack' = Append([stack EXCEPT ![Len(stack)] = [@ EXCEPT !.i = @ + 1]],
                              Frame(dep_url, Top.root_repo_key))
    /\ UNCHANGED <<analyzerVars, seeds, row, remote, processed_repos, failed_repos, fs,
                   fetchLog, phase>>

\* process_all_repositories returns, main goes on to create_final_summary
Finished ==
    /\ phase = "resolve" /\ stack = <<>> /\ row > Len(seeds)
    /\ phase' = "resolved"
    /\ UNCHANGED <<analyzerVars, seeds, row, remote, processed_repos, failed_repos,
                   dependency_graph,
                   fs, stack, fetchLog>>

---------------------------------------------------------------------------
\* dependency_graph_analyzer.py

\* defaultdict lookup without insertion: d.get(k, [])
Get(d, k) == IF k \in DOMAIN d THEN d[k] ELSE <<>>

\* extract_repo_info_from_url: f"{owner}/{repo}" without a test of either part
extract_repo_info_from_url(github_url) ==
    LET path_parts == Split(Strip(UrlPath(StripGit(github_url))))
    IN  IF Len(path_parts) >= 2 THEN path_parts[1] \o <<"/">> \o path_parts[2]
        ELSE None

\* parse_package_swift on a stored text: what it can return.  A locator that
\* urlparse rejects raises inside the try, and the except branch returns no
\* dependencies and has_package_swift False.
parse_package_swift(content) ==
    LET urls == {content[i] : i \in {j \in DOMAIN content : ContainsGithub(content[j])}}
    IN  IF \E url \in urls : UrlParseRaises(url)
        THEN {[dependencies |-> <<>>, has_package_swift |-> FALSE]}
        ELSE LET found_urls == {extract_repo_info_from_url(url) : url \in urls} \ {None}
             IN  {[dependencies |-> d, has_package_swift |-> TRUE] :
                    d \in Orders(found_urls)}

\* the edge without line 134
AddEdgeOnly(a, repo_key, dep) ==
    [a EXCEPT !.graph = (repo_key :> Append(Get(@, repo_key), dep)) @@ @,
              !.reverse_graph = (dep :> Append(Get(@, dep), repo_key)) @@ @]

\* lines 131-134: one edge
AddEdge(a, repo_key, dep) ==
    [a EXCEPT !.graph = (repo_key :> Append(Get(@, repo_key), dep)) @@ @,
              !.reverse_graph = (dep :> Append(Get(@, dep), repo_key)) @@ @,
              !.nodes = @ \cup {dep}]

RECURSIVE AddEdges(_, _, _, _)
AddEdges(a, repo_key, deps, k) ==
    IF k > Len(deps) THEN a
    ELSE AddEdges(AddEdge(a, repo_key, deps[k]), repo_key, deps, k + 1)

\* every package directory made a node, with or without a Package.swift
ScanPackageDirAlways(a, tree, path, info) ==
    LET repo_key == Replace(path[2], "_", "/")
    IN  AddEdges([a EXCEPT !.package_info = (repo_key :> info) @@ @,
                           !.nodes = @ \cup {repo_key}],
                 repo_key, info.dependencies, 1)

\* lines 109-140 for one package_dir: the name is turned back into a repo_key;
\* without a Package.swift the directory is passed over
ScanPackageDir(a, tree, path, info) ==
    LET repo_key == Replace(path[2], "_", "/")
    IN  IF ~tree[path].file THEN a
        ELSE AddEdges([a EXCEPT !.package_info = (repo_key :> info) @@ @,
                                !.nodes = @ \cup {repo_key}],
                      repo_key, info.dependencies, 1)

\* what parse_package_swift can return for the file of `path`
ParsesOf(tree, path) ==
    IF tree[path].file THEN parse_package_swift(tree[path].content)
    ELSE {[dependencies |-> <<>>, has_package_swift |-> FALSE]}

\* the loops of lines 104-140 over `listing` from position k on: every result
RECURSIVE ScanFrom(_, _, _, _)
ScanFrom(a, tree, listing, k) ==
    IF k > Len(listing) THEN {a}
    ELSE UNION {ScanFrom(ScanPackageDir(a, tree, listing[k], info), tree, listing,
                         k + 1) : info \in ParsesOf(tree, listing[k])}

\* os.listdir gives the root directories in any order and, root by root, the
\* package directories in any order
Listings(tree) ==
    {l \in Orders(DOMAIN tree) :
       \A i, j, k \in DOMAIN l : (i < j /\ j < k /\ l[i][1] = l[k][1]) => l[j][1] = l[i][1]}

\* scan_directory_structure
scan_directory_structure ==
    /\ phase # "resolve" /\ apc = "new"
    /\ \E a \in UNION {ScanFrom([nodes |-> nodes, graph |-> graph,
                                  reverse_graph |-> reverse_graph,
                                  package_info |-> package_info], fs, listing, 1) :
                          listing \in Listings(fs)} :
         /\ nodes' = a.nodes
         /\ graph' = a.graph
         /\ reverse_graph' = a.reverse_graph
         /\ package_info' = a.package_info
    /\ apc' = "scanned"
    /\ UNCHANGED <<resolverVars, stats, nodes_data>>

\* defaultdict lookup d[k] for every k of S: the missing keys are inserted
Touch(d, S) == [k \in DOMAIN d \cup S |-> Get(d, k)]

RECURSIVE SumOfLens(_, _)
SumOfLens(d, S) ==
    IF S = {} THEN 0
    ELSE LET k == CHOOSE x \in S : TRUE IN Len(d[k]) + SumOfLens(d, S \ {k})

Max(a, b) == IF a >= b THEN a ELSE b

\* the dependencies pushed at the head of the queue (appendleft for append)
RECURSIVE EnqueueFront(_, _, _, _, _)
EnqueueFront(queue, deps, k, visited, depth) ==
    IF k > Len(deps) THEN queue
    ELSE EnqueueFront(IF deps[k] \notin visited THEN <<<<deps[k], depth + 1>>>> \o queue
                      ELSE queue,
                      deps, k + 1, visited, depth)

\* lines 185-187: the dependencies of `node` not yet visited, queued one deeper
RECURSIVE Enqueue(_, _, _, _, _)
Enqueue(queue, deps, k, visited, depth) ==
    IF k > Len(deps) THEN queue
    ELSE Enqueue(IF deps[k] \notin visited THEN Append(queue, <<deps[k], depth + 1>>)
                 ELSE queue,
                 deps, k + 1, visited, depth)

\* the while loop of lines 176-187
RECURSIVE BfsLoop(_, _, _, _)
BfsLoop(g, queue, visited, max_depth) ==
    IF queue = <<>> THEN max_depth
    ELSE LET node == Head(queue)[1]
             depth == Head(queue)[2]
         IN  IF node \in visited THEN BfsLoop(g, Tail(queue), visited, max_depth)
             ELSE BfsLoop(g,
                          Enqueue(Tail(queue), Get(g, node), 1, visited \cup {node},
                                  depth),
                          visited \cup {node}, Max(max_depth, depth))

\* calculate_depth_from_node
calculate_depth_from_node(g, start_node) ==
    IF start_node \notin DOMAIN g THEN 0
    ELSE BfsLoop(g, <<<<start_node, 0>>>>, {}, 0)

\* lines 158-161: the maximum over the roots
RECURSIVE MaxDepthOver(_, _)
MaxDepthOver(g, roots) ==
    IF roots = {} THEN 0
    ELSE LET r == CHOOSE x \in roots : TRUE
         IN  Max(calculate_depth_from_node(g, r), MaxDepthOver(g, roots \ {r}))

\* the cycle taken from the start of the path
IndexOfStart(path, node) == 1

\* path.index(node)
Index(path, node) ==
    CHOOSE i \in DOMAIN path : path[i] = node /\ \A j \in 1..(i - 1) : path[j] # node

\* the cycle without the closing node
CycleOfOpen(path, node) == SubSeq(path, Index(path, node), Len(path))

\* lines 200-201: the cycle closed by reaching `node` again
CycleOf(path, node) == SubSeq(path, Index(path, node), Len(path)) \o <<node>>

\* what the dfs does, in order (d.events): visited.add(node), and the call
\* dfs(neighbor, ...) made in the loop over the neighbors of node
Visited(node) == [kind |-> "visited", node |-> node, neighbor |-> None]
Explored(node, neighbor) == [kind |-> "explored", node |-> node, neighbor |-> neighbor]

RECURSIVE dfsVisitedOnExit(_, _, _, _), DfsNeighborsOnExit(_, _, _, _, _)
RECURSIVE dfs(_, _, _, _), DfsNeighbors(_, _, _, _, _)

\* the dfs with visited.add(node) moved behind the loop over the neighbors
dfsVisitedOnExit(g, node, path, d) ==
    IF node \in d.rec_stack THEN [d EXCEPT !.cycles = Append(@, CycleOf(path, node))]
    ELSE IF node \in d.visited THEN d
    ELSE LET entered == [d EXCEPT !.rec_stack = @ \cup {node}]
             left == DfsNeighborsOnExit(g, Get(g, node), 1, Append(path, node),
                                        entered)
         IN  [left EXCEPT !.visited = @ \cup {node},
                          !.events = Append(@, Visited(node)),
                          !.rec_stack = @ \ {node}]

DfsNeighborsOnExit(g, neighbors, k, path, d) ==
    IF k > Len(neighbors) THEN d
    ELSE DfsNeighborsOnExit(
           g, neighbors, k + 1, path,
           dfsVisitedOnExit(
             g, neighbors[k], path,
             [d EXCEPT !.events = Append(@, Explored(path[Len(path)], neighbors[k]))]))

\* dfs of detect_circular_dependencies, lines 197-215; d holds visited,
\* rec_stack and cycles, and the events so far
dfs(g, node, path, d) ==
    IF node \in d.rec_stack THEN [d EXCEPT !.cycles = Append(@, CycleOf(path, node))]
    ELSE IF node \in d.visited THEN d
    ELSE LET entered == [d EXCEPT !.visited = @ \cup {node},
                                  !.events = Append(@, Visited(node)),
                                  !.rec_stack = @ \cup {node}]
             left == DfsNeighbors(g, Get(g, node), 1, Append(path, node), entered)
         IN  [left EXCEPT !.rec_stack = @ \ {node}]

\* lines 212-213
DfsNeighbors(g, neighbors, k, path, d) ==
    IF k > Len(neighbors) THEN d
    ELSE DfsNeighbors(
           g, neighbors, k + 1, path,
           dfs(g, neighbors[k], path,
               [d EXCEPT !.events = Append(@, Explored(path[Len(path)], neighbors[k]))]))

\* lines 217-219, the node set iterated in `order`
RECURSIVE DfsFromAll(_, _, _, _)
DfsFromAll(g, order, k, d) ==
    IF k > Len(order) THEN d
    ELSE DfsFromAll(g, order, k + 1,
                    IF order[k] \notin d.visited THEN dfs(g, order[k], <<>>, d) ELSE d)

\* lines 193-195 and 217-219: the whole search, the node set iterated in `order`
DfsRun(g, order) ==
    DfsFromAll(g, order, 1,
               [visited |-> {}, rec_stack |-> {}, cycles |-> <<>>, events |-> <<>>])

\* detect_circular_dependencies
detect_circular_dependencies(g, order) == DfsRun(g, order).cycles

\* calculate_graph_metrics; the comprehensions of lines 150 and 154 insert every
\* node as a key of reverse_graph and of graph
calculate_graph_metrics ==
    /\ apc = "scanned"
    /\ LET touched_reverse == Touch(reverse_graph, nodes)
           touched == Touch(graph, nodes)
           root_packages == {node \in nodes : Len(touched_reverse[node]) = 0}
           leaf_packages == {node \in nodes : Len(touched[node]) = 0}
       IN  /\ reverse_graph' = touched_reverse
           /\ graph' = touched
           /\ \E cycles \in {detect_circular_dependencies(touched, order) :
                                order \in Orders(nodes)} :
                stats' = [total_nodes |-> Cardinality(nodes),
                          total_edges |-> SumOfLens(graph, DOMAIN graph),
                          root_packages |-> Cardinality(root_packages),
                          leaf_packages |-> Cardinality(leaf_packages),
                          max_depth |-> MaxDepthOver(touched, root_packages),
                          circular_dependencies |-> cycles]
    /\ apc' = "measured"
    /\ UNCHANGED <<resolverVars, nodes, package_info, nodes_data>>

\* generate_graph_json, lines 227-238: one record for each node; the lookups
\* graph[node] and reverse_graph[node] are those of a defaultdict
generate_graph_json ==
    /\ apc = "measured"
    /\ LET touched_reverse == Touch(reverse_graph, nodes)
           touched == Touch(graph, nodes)
       IN  /\ reverse_graph' = touched_reverse
           /\ graph' = touched
           /\ nodes_data' =
                [node \in nodes |->
                   [has_package_swift |-> node \in DOMAIN package_info,
                    dependencies_count |-> Len(touched[node]),
                    dependents_count |-> Len(touched_reverse[node]),
                    is_root |-> Len(touched_reverse[node]) = 0,
                    is_leaf |-> Len(touched[node]) = 0]]
    /\ apc' = "emitted"
    /\ UNCHANGED <<resolverVars, nodes, package_info, stats>>

\* generate_summary_report: lines 316-324 look every node up in both
\* defaultdicts; what is written is the statistics
generate_summary_report ==
    /\ apc = "emitted"
    /\ reverse_graph' = Touch(reverse_graph, nodes)
    /\ graph' = Touch(graph, nodes)
    /\ apc' = "reported"
    /\ UNCHANGED <<resolverVars, nodes, package_info, stats, nodes_data>>

---------------------------------------------------------------------------
\* The whole run: main.py, then the analyzer over the tree it left

vars == <<resolverVars, analyzerVars>>

Init == InitResolver /\ InitAnalyzer

Next ==
    \/ SeedRaises
    \/ SeedSkipped
    \/ SeedCall
    \/ AlreadyProcessed
    \/ FetchFailed
    \/ DecodeFailed
    \/ Downloaded
    \/ LoopDone
    \/ DepRaises
    \/ DepSkipped
    \/ DepCall
    \/ Finished
    \/ scan_directory_structure
    \/ calculate_graph_metrics

Spec == Init /\ [][Next]_vars

---------------------------------------------------------------------------
\* The analyzer alone, over a tree of stored manifests that is already there
\* (run_analysis of dependency_graph_analyzer.py)

StoredIds == {IdA, IdB, IdD}
StoredLocators == {Url(id) : id \in StoredIds}
StoredPaths == {create_directory_path(id, IdA) : id \in StoredIds}

\* the trees over the directories P with at most `budget` declarations
RECURSIVE TreesOver(_, _)
TreesOver(P, budget) ==
    IF P = {} THEN {<<>>}
    ELSE LET path == CHOOSE x \in P : TRUE
         IN  TreesOver(P \ {path}, budget)
               \cup UNION {{(path :> [file |-> TRUE, content |-> c]) @@ t :
                              t \in TreesOver(P \ {path}, budget - Len(c))} :
                           c \in SeqsUpTo(StoredLocators, budget)}

InitStored ==
    /\ seeds = <<>>
    /\ row = 1
    /\ remote = [id \in Identifiers |-> Unfetched]
    /\ processed_repos = {}
    /\ failed_repos = {}
    /\ dependency_graph = <<>>
    /\ fs \in TreesOver(StoredPaths, MaxStored)
    /\ stack = <<>>
    /\ fetchLog = <<>>
    /\ phase = "stored"
    /\ InitAnalyzer

NextAnalyzer ==
    \/ scan_directory_structure
    \/ calculate_graph_metrics

SpecAnalyzer == InitStored /\ [][NextAnalyzer]_vars

---------------------------------------------------------------------------
\* run_analysis to its end, the two output files included, over a tree in which
\* a stored manifest may declare a locator that urlparse rejects

ReportLocators == {Url(IdB), Url(IdD), UrlBad(IdA)}

\* the trees over the directories P with at most `budget` declarations; a
\* directory may be there without a Package.swift
RECURSIVE ReportTrees(_, _)
ReportTrees(P, budget) ==
    IF P = {} THEN {<<>>}
    ELSE LET path == CHOOSE x \in P : TRUE
         IN  ReportTrees(P \ {path}, budget)
               \cup {(path :> [file |-> FALSE, content |-> <<>>]) @@ t :
                       t \in ReportTrees(P \ {path}, budget)}
               \cup UNION {{(path :> [file |-> TRUE, content |-> c]) @@ t :
                              t \in ReportTrees(P \ {path}, budget - Len(c))} :
                           c \in SeqsUpTo(ReportLocators, budget)}

InitReport ==
    /\ seeds = <<>>
    /\ row = 1
    /\ remote = [id \in Identifiers |-> Unfetched]
    /\ processed_repos = {}
    /\ failed_repos = {}
    /\ dependency_graph = <<>>
    /\ fs \in ReportTrees(StoredPaths, MaxReported)
    /\ stack = <<>>
    /\ fetchLog = <<>>
    /\ phase = "stored"
    /\ InitAnalyzer

NextReport ==
    \/ scan_directory_structure
    \/ calculate_graph_metrics
    \/ generate_graph_json
    \/ generate_summary_report

SpecReport == InitReport /\ [][NextReport]_vars

---------------------------------------------------------------------------
\* Properties

KeyOf(frame) == RepoKey(frame.github_url)

Targets(d) == UNION {Range(d[k]) : k \in DOMAIN d}

\* C1: within one run no identifier is fetched more than once, whatever the
\* seeds and the dependency relation; every identifier fetched is in
\* processed_repos or failed_repos from the fetch on, and a call that has come
\* to its dependency loop (to its recursive calls) has its identifier in
\* processed_repos.
C1_AtMostOneFetch ==
    /\ \A i, j \in DOMAIN fetchLog : i # j => fetchLog[i] # fetchLog[j]
    /\ Range(fetchLog) \subseteq processed_repos \cup failed_repos
    /\ \A k \in DOMAIN stack :
         stack[k].pc = "loop" => KeyOf(stack[k]) \in processed_repos

\* the same seed twice, a package that declares itself: one fetch
C1_Witness ==
    /\ phase = "resolved"
    /\ seeds = <<Url(IdB), Url(IdB)>>
    /\ IdB \in DOMAIN dependency_graph
    /\ IdB \in Range(dependency_graph[IdB])
    /\ fetchLog = <<IdB>>

\* What is left to do, as a natural number: the identifiers not yet in
\* processed_repos or failed_repos (each worth more than the longest dependency
\* loop), the rows left, the steps the active calls still have to take, and the
\* stages of the run.
FrameWeight(frame) ==
    IF frame.pc = "call" THEN 1
    ELSE 2 * (Len(frame.dependencies) - frame.i + 1) + 1

RECURSIVE StackWeight(_)
StackWeight(k) == IF k = 0 THEN 0 ELSE FrameWeight(stack[k]) + StackWeight(k - 1)

Rank ==
    (2 * Cardinality(DeclLocators) + 1)
        * Cardinality(Identifiers \ (processed_repos \cup failed_repos))
    + 2 * (Len(seeds) + 1 - row)
    + StackWeight(Len(stack))
    + (IF phase = "resolve" THEN 1 ELSE 0)
    + (IF apc = "new" THEN 2 ELSE IF apc = "scanned" THEN 1 ELSE 0)

\* C2: every call of download_package_swift returns, with no depth limit and
\* with cycles and self-dependencies: every step of the run lowers Rank, which
\* never goes below 0, so no run goes on for ever; the calls are nested no
\* deeper than the identifiers processed so far, plus one, so a recursive call
\* is never held back by the bound of the model.
C2_EveryCallReturns ==
    /\ [][Rank' < Rank]_vars
    /\ [](Rank >= 0)
    /\ [](Len(stack) <= Cardinality(processed_repos) + 1)
    /\ []((stack # <<>> /\ Top.pc = "loop") => Len(stack) < MaxStack)

\* two packages that declare each other: both calls have returned
C2_Witness ==
    /\ phase = "resolved"
    /\ IdB \in DOMAIN dependency_graph /\ IdC \in DOMAIN dependency_graph
    /\ dependency_graph[IdB] = <<IdC>>
    /\ dependency_graph[IdC] = <<IdB>>

\* a step in which the fetch of TopKey fails
FetchFails ==
    /\ Len(fetchLog') = Len(fetchLog) + 1
    /\ remote'[fetchLog'[Len(fetchLog')]].kind \in {"NotFound", "Undecodable"}

\* C3: a fetch failure is local: the identifier goes to failed_repos and not
\* to processed_repos, no edge leaves it, the failing call alone returns, and
\* the callers, the row of the seed list and the run go on as they were; at the
\* end every seed row with an identifier has been resolved and every processed
\* identifier whose own loop raised nothing has one edge for each of its
\* locators.
C3_FailureIsLocal ==
    /\ [][FetchFails =>
            /\ TopKey \in failed_repos'
            /\ TopKey \notin processed_repos'
            /\ processed_repos' = processed_repos
            /\ TopKey \notin DOMAIN dependency_graph'
            /\ dependency_graph' = dependency_graph
            /\ stack' = Pop
            /\ phase' = "resolve" /\ row' = row /\ seeds' = seeds]_vars
    /\ [](phase = "resolved" =>
            /\ \A r \in DOMAIN seeds :
                 RepoKey(seeds[r]) # None =>
                   RepoKey(seeds[r]) \in processed_repos \cup failed_repos
            /\ \A s \in processed_repos \ failed_repos :
                 \A l \in extract_dependencies_from_content(remote[s].decls) :
                   RepoKey(l) # None =>
                     /\ RepoKey(l) \in Range(dependency_graph[s])
                     /\ RepoKey(l) \in processed_repos \cup failed_repos)

\* the first dependency and the first seed fail, the second ones are resolved
C3_Witness ==
    /\ phase = "resolved"
    /\ seeds = <<Url(IdA), Url(IdB)>>
    /\ IdA \in failed_repos \ processed_repos
    /\ IdB \in processed_repos
    /\ IdB \in DOMAIN dependency_graph
    /\ dependency_graph[IdB] = <<IdC, IdB>>
    /\ fetchLog = <<IdA, IdB, IdC>>
    /\ IdC \in failed_repos

\* C4: no dangling edge. (a) Once the resolution has ended, every edge of
\* dependency_graph leaves a processed identifier and enters a processed or
\* failed one. (b) After scan_directory_structure every source with edges,
\* every target, and every key and element of reverse_graph is in nodes.
C4_NoDanglingEdge ==
    /\ phase # "resolve" =>
         \A s \in DOMAIN dependency_graph :
           /\ s \in processed_repos
           /\ Range(dependency_graph[s]) \subseteq processed_repos \cup failed_repos
    /\ apc # "new" =>
         /\ \A s \in DOMAIN graph :
              graph[s] # <<>> => s \in nodes /\ Range(graph[s]) \subseteq nodes
         /\ \A t \in DOMAIN reverse_graph :
              t \in nodes /\ Range(reverse_graph[t]) \subseteq nodes

\* an edge into an identifier whose fetch failed, kept by the resolver and
\* found again by the scan
C4_Witness ==
    /\ phase = "resolved" /\ apc = "scanned"
    /\ IdB \in DOMAIN dependency_graph /\ dependency_graph[IdB] = <<IdC>>
    /\ IdC \in failed_repos \ processed_repos
    /\ IdB \in DOMAIN graph /\ graph[IdB] = <<IdC>>
    /\ IdC \in DOMAIN reverse_graph /\ reverse_graph[IdC] = <<IdB>>

\* the identifiers the stored manifests are scanned under
StoredKeys == {Replace(path[2], "_", "/") : path \in {q \in DOMAIN fs : fs[q].file}}

\* C5 as stated: a seed whose manifest could not be fetched is a node of the
\* graph built by the scan.
C5_FailedSeedIsNode ==
    apc # "new" =>
      \A r \in DOMAIN seeds :
        (r < row /\ ~UrlParseRaises(seeds[r])
         /\ RepoKey(seeds[r]) \in failed_repos \ processed_repos)
          => RepoKey(seeds[r]) \in nodes

\* C5, amended: the nodes are the identifiers the stored manifests are scanned
\* under and the dependencies parsed from them, no more; an identifier whose
\* fetch failed is a node exactly when a scanned manifest declares it.
C5_NodesAreStoredOrDeclared ==
    apc # "new" =>
      /\ nodes = StoredKeys \cup Targets(graph)
      /\ \A x \in failed_repos \ processed_repos :
           x \in nodes <=> x \in Targets(graph)

\* a failed seed that is no node, beside a processed seed that is one
C5_Witness ==
    /\ apc = "scanned"
    /\ seeds = <<Url(IdA), Url(IdB)>>
    /\ IdA \in failed_repos /\ IdA \notin nodes
    /\ IdB \in processed_repos /\ IdB \in nodes

\* how often t occurs in the list l
Count(l, t) == Cardinality({i \in DOMAIN l : l[i] = t})

\* the locators of a text that contain 'github.com'
GithubUrls(content) ==
    {content[i] : i \in {j \in DOMAIN content : ContainsGithub(content[j])}}

\* C6 as stated, for the graph of the scan: a stored manifest has one edge for
\* each of its distinct locators that names an identifier.
C6_ScanKeepsEveryLocator ==
    apc # "new" =>
      \A path \in DOMAIN fs :
        (fs[path].file /\ \A u \in GithubUrls(fs[path].content) : ~UrlParseRaises(u))
          => Len(Get(graph, Replace(path[2], "_", "/")))
               = Cardinality({u \in GithubUrls(fs[path].content) :
                                extract_repo_info_from_url(u) # None})

\* C6, amended: the resolver keeps one edge for each distinct locator string
\* that names an identifier, so two locators of one identifier give two edges;
\* the scan keeps one edge for each distinct identifier, so they give one.
C6_LocatorThenIdentifier ==
    /\ stack = <<>> =>
         \A s \in processed_repos \ failed_repos : \A t \in Identifiers :
           Count(Get(dependency_graph, s), t)
             = Cardinality({u \in GithubUrls(remote[s].decls) : RepoKey(u) = t})
    /\ apc # "new" =>
         \A path \in DOMAIN fs :
           (fs[path].file /\ \A u \in GithubUrls(fs[path].content) : ~UrlParseRaises(u))
             => \A t \in Identifiers :
                  Count(Get(graph, Replace(path[2], "_", "/")), t)
                    = IF \E u \in GithubUrls(fs[path].content) :
                           extract_repo_info_from_url(u) = t
                      THEN 1 ELSE 0

\* one manifest naming IdC by two locators: two edges recorded, one scanned
C6_Witness ==
    /\ apc = "scanned"
    /\ remote[IdB].decls = <<Url(IdC), UrlGit(IdC)>>
    /\ IdB \in DOMAIN dependency_graph /\ dependency_graph[IdB] = <<IdC, IdC>>
    /\ IdB \in DOMAIN graph /\ graph[IdB] = <<IdC>>

\* the nodes with outgoing edges, and the one successor of such a node
Sources == {s \in DOMAIN graph : graph[s] # <<>>}

RECURSIVE Orbit(_, _)
Orbit(s, k) == IF k = 0 THEN {} ELSE {s} \cup Orbit(graph[s][1], k - 1)

\* the edges form one simple directed cycle: every source has one edge, into a
\* source, no two sources share a successor, and one walk passes all of them
IsSingleCycle ==
    /\ Sources # {}
    /\ \A s \in Sources : Len(graph[s]) = 1 /\ graph[s][1] \in Sources
    /\ \A s, t \in Sources : graph[s][1] = graph[t][1] => s = t
    /\ \A s \in Sources : Orbit(s, Cardinality(Sources)) = Sources

\* C7: for a graph whose edges form one simple directed cycle over n nodes,
\* detect_circular_dependencies reports exactly one cycle, in whatever order
\* the node set is iterated: n + 1 identifiers, the first and the last the
\* same, each followed by its successor, the n nodes each once.
C7_SingleCycleReportedOnce ==
    (apc = "measured" /\ IsSingleCycle) =>
      LET cycles == stats.circular_dependencies
          n == Cardinality(Sources)
      IN  /\ Len(cycles) = 1
          /\ Len(cycles[1]) = n + 1
          /\ cycles[1][1] = cycles[1][n + 1]
          /\ \A i \in 1..n : graph[cycles[1][i]] = <<cycles[1][i + 1]>>
          /\ {cycles[1][i] : i \in 1..n} = Sources

\* the cycle of three, found from IdB; IdA, IdB, IdD are all the nodes
C7_Witness ==
    /\ apc = "measured"
    /\ nodes = {IdA, IdB, IdD}
    /\ graph[IdA] = <<IdB>> /\ graph[IdB] = <<IdD>> /\ graph[IdD] = <<IdA>>
    /\ stats.circular_dependencies = <<<<IdB, IdD, IdA, IdB>>>>

\* the elementary cycles of the forward adjacency, each from one of its nodes
ElementaryCycles ==
    {c \in UNION {Orders(T) : T \in SUBSET nodes \ {{}}} :
       /\ \A i \in 1..(Len(c) - 1) : c[i + 1] \in Range(Get(graph, c[i]))
       /\ c[1] \in Range(Get(graph, c[Len(c)]))}

\* `reported` is the cycle c from some node of it round to that node again
IsRotation(reported, c) ==
    /\ Len(reported) = Len(c) + 1
    /\ \E k \in 1..Len(c) :
         \A i \in 1..(Len(c) + 1) : reported[i] = c[((k + i - 2) % Len(c)) + 1]

\* C8 as stated: every elementary cycle of the graph is reported.
C8_EveryCycleReported ==
    apc = "measured" =>
      \A c \in ElementaryCycles :
        \E j \in DOMAIN stats.circular_dependencies :
          IsRotation(stats.circular_dependencies[j], c)

\* C8, amended: no cycle is reported for an acyclic graph, at least one for a
\* graph with a cycle, and every cycle reported is an elementary cycle of the
\* graph; an elementary cycle through nodes visited before may go unreported.
C8_ReportedCyclesAreCycles ==
    apc = "measured" =>
      /\ ElementaryCycles = {} <=> stats.circular_dependencies = <<>>
      /\ \A j \in DOMAIN stats.circular_dependencies :
           \E c \in ElementaryCycles : IsRotation(stats.circular_dependencies[j], c)

\* two elementary cycles, IdA IdB IdD and IdA IdD, and one of them reported
C8_Witness ==
    /\ apc = "measured"
    /\ nodes = {IdA, IdB, IdD}
    /\ graph[IdA] = <<IdB, IdD>> /\ graph[IdB] = <<IdD>> /\ graph[IdD] = <<IdA>>
    /\ stats.circular_dependencies = <<<<IdA, IdB, IdD, IdA>>>>

\* the nodes at most k edges away from r
RECURSIVE Within(_, _)
Within(r, k) ==
    IF k = 0 THEN {r}
    ELSE LET near == Within(r, k - 1)
         IN  near \cup UNION {Range(Get(graph, v)) : v \in near}

\* the largest number of edges on a shortest path from r
Eccentricity(r) ==
    CHOOSE k \in 0..Cardinality(nodes) :
      /\ Within(r, k) = Within(r, k + 1)
      /\ \A j \in 0..(k - 1) : Within(r, j) # Within(r, j + 1)

\* the nodes no edge enters
Roots == {v \in nodes : \A s \in DOMAIN graph : v \notin Range(graph[s])}

\* C9: max_depth is the largest shortest-path distance from a root (a node
\* no edge enters) to a node reachable from it, and 0 when there is no root or
\* no root has an edge; nodes no root reaches do not count.
C9_MaxDepthIsShortestPath ==
    apc = "measured" =>
      /\ \A r \in Roots : Eccentricity(r) <= stats.max_depth
      /\ stats.max_depth = 0 \/ \E r \in Roots : Eccentricity(r) = stats.max_depth

\* IdD is two edges from the root IdA by IdB and one edge directly: depth 1
C9_Witness ==
    /\ apc = "measured"
    /\ nodes = {IdA, IdB, IdD}
    /\ graph[IdA] = <<IdB, IdD>> /\ graph[IdB] = <<IdD>> /\ graph[IdD] = <<>>
    /\ stats.max_depth = 1

\* the distinct locators with 'github.com' among the first k declarations of a
\* manifest text, in the order of their first appearance
RECURSIVE FirstAppearances(_, _)
FirstAppearances(content, k) ==
    IF k = 0 THEN <<>>
    ELSE IF ContainsGithub(content[k])
            /\ content[k] \notin Range(SubSeq(content, 1, k - 1))
         THEN Append(FirstAppearances(content, k - 1), content[k])
         ELSE FirstAppearances(content, k - 1)

DeclarationOrder(content) == FirstAppearances(content, Len(content))

\* the edges the first n locators of a list give: one for each locator with an
\* owner and a repo
RECURSIVE EdgesOf(_, _)
EdgesOf(urls, n) ==
    IF n = 0 THEN <<>>
    ELSE IF ~UrlParseRaises(urls[n]) /\ RepoKey(urls[n]) # None
         THEN Append(EdgesOf(urls, n - 1), RepoKey(urls[n]))
         ELSE EdgesOf(urls, n - 1)

\* the edges of the call at stack[k] are those of the first n locators of
\* `order`, and the call it has made, if any, is for the n-th of them
FollowsOrder(k, order, n) ==
    /\ Get(dependency_graph, KeyOf(stack[k])) = EdgesOf(order, n)
    /\ k < Len(stack) => n >= 1 /\ stack[k + 1].github_url = order[n]

\* C10 as stated: edges are recorded and targets resolved in the order in
\* which the declarations appear in the manifest text.
C10_DeclarationOrder ==
    \A k \in DOMAIN stack :
      stack[k].pc = "loop" =>
        LET order == DeclarationOrder(remote[KeyOf(stack[k])].decls)
        IN  \E n \in 0..Len(order) : FollowsOrder(k, order, n)

\* C10, amended: the distinct locators of the manifest are taken in one order,
\* which need not be that of the text (it is the iteration order of a set);
\* the edges are recorded and the targets resolved in that same order, each
\* edge before the call for its target and each call after the return of the
\* one before it.
C10_OneOrderForEdgesAndCalls ==
    \A k \in DOMAIN stack :
      stack[k].pc = "loop" =>
        LET order == stack[k].dependencies
        IN  /\ Range(order) = Range(DeclarationOrder(remote[KeyOf(stack[k])].decls))
            /\ Len(order) = Cardinality(Range(order))
            /\ stack[k].i \in 1..(Len(order) + 1)
            /\ FollowsOrder(k, order, stack[k].i - 1)

\* IdB declared before IdC, IdC recorded and fetched before IdB
C10_Witness ==
    /\ stack # <<>> /\ Top.pc = "loop" /\ TopKey = IdA /\ Top.i = 3
    /\ remote[IdA].decls = <<Url(IdB), Url(IdC)>>
    /\ dependency_graph[IdA] = <<IdC, IdB>>
    /\ fetchLog = <<IdA, IdC, IdB>>

\* C11 as stated: once scan_directory_structure has built them, no later
\* operation of the analyzer changes nodes, graph or reverse_graph, their sets
\* of keys included.
C11_GraphImmutableOnceBuilt ==
    [][apc # "new" =>
         /\ nodes' = nodes
         /\ graph' = graph
         /\ reverse_graph' = reverse_graph]_vars

\* the searches detect_circular_dependencies can make over the graph of the
\* state, one for each order in which the node set can be iterated
Runs == {DfsRun(Touch(graph, nodes), order) : order \in Orders(nodes)}

\* the positions in a run at which node is added to visited, and at which the
\* dfs is called for a neighbor of node
VisitsOf(r, node) ==
    {i \in DOMAIN r.events : r.events[i].kind = "visited" /\ r.events[i].node = node}

ExplorationsFrom(r, node) ==
    {j \in DOMAIN r.events : r.events[j].kind = "explored" /\ r.events[j].node = node}

\* a reported cycle without its closing node
Opened(cycle) == SubSeq(cycle, 1, Len(cycle) - 1)

\* C12 as stated: a node is added to visited only after all of its neighbors
\* have been explored.
C12_VisitedAfterNeighbors ==
    apc = "measured" =>
      \A r \in Runs : \A node \in nodes :
        \A i \in VisitsOf(r, node) : \A j \in ExplorationsFrom(r, node) : j < i

\* C12, amended: a node is added to visited on entry, before any of its
\* neighbors is explored, and once only: a node reached again is either on the
\* recursion stack, and a cycle is reported, or passed over, never explored
\* again; no cycle is reported twice, as it is or rotated.
C12_VisitedOnEntry ==
    apc = "measured" =>
      /\ stats.circular_dependencies \in {r.cycles : r \in Runs}
      /\ \A r \in Runs :
           /\ \A node \in nodes :
                /\ Cardinality(VisitsOf(r, node)) = 1
                /\ \A i \in VisitsOf(r, node) :
                     \A j \in ExplorationsFrom(r, node) : i < j
           /\ \A a, b \in DOMAIN r.cycles :
                a # b => ~IsRotation(r.cycles[a], Opened(r.cycles[b]))

\* IdD reached from IdA and again from IdB: explored once, one cycle reported
C12_Witness ==
    /\ apc = "measured"
    /\ nodes = {IdA, IdB, IdD}
    /\ graph[IdA] = <<IdD, IdB>> /\ graph[IdB] = <<IdD>> /\ graph[IdD] = <<IdA>>
    /\ stats.circular_dependencies = <<<<IdA, IdD, IdA>>>>
    /\ \E r \in Runs :
         /\ r.cycles = stats.circular_dependencies
         /\ Cardinality({j \in DOMAIN r.events :
                           r.events[j].kind = "explored" /\ r.events[j].neighbor = IdD}) = 2
         /\ Cardinality(VisitsOf(r, IdD)) = 1

\* C13 as stated: in the emitted node records has_package_swift is true
\* exactly for the nodes whose stored manifest parse_package_swift parsed; it is
\* false for a node whose manifest could not be parsed and for a node that is
\* only the target of a dependency.
C13_HasManifestIffParsed ==
    apc \in {"emitted", "reported"} =>
      \A node \in DOMAIN nodes_data :
        nodes_data[node].has_package_swift
          <=> (node \in DOMAIN package_info /\ package_info[node].has_package_swift)

\* C14 as stated: in every state of a run processed_repos and failed_repos
\* are disjoint, whatever step of download_package_swift raises.
C14_ProcessedAndFailedDisjoint == processed_repos \cap failed_repos = {}

\* C15 as stated: the scan recovers from the directory name of every stored
\* manifest the identifier the resolver stored it under, so the identifiers
\* scanned as sources are the resolver's processed identifiers.
C15_RescanRoundTrips ==
    apc # "new" =>
      /\ \A path \in DOMAIN fs :
           fs[path].file =>
             \E id \in processed_repos :
               /\ path[2] = create_directory_path(id, path[1])[2]
               /\ Replace(path[2], "_", "/") = id
      /\ DOMAIN package_info = processed_repos

====
